---- MODULE Spec2Model ----
(***************************************************************************)
(* State-machine model of bot.py: a Telegram bot that relays /generate     *)
(* prompts to a Google generative model and returns the image or an error. *)
(*                                                                         *)
(* The model covers the module-level start-up (lines 19-50), main()        *)
(* (lines 183-204), the update dispatch of the Application built at line   *)
(* 190, and the three command handlers (lines 54-179).  One action is one  *)
(* stretch of code between two suspension points (await) of a handler.     *)
(***************************************************************************)
EXTENDS Integers, Sequences, FiniteSets, TLC

(***************************************************************************)
(* Bounds of the model.                                                    *)
(***************************************************************************)
MaxUpdates == 2
MaxArgs == 2
MaxParts == 2
MaxData == 1

(***************************************************************************)
(* Input alphabets.                                                        *)
(***************************************************************************)
\* words of a command's argument list (context.args holds whitespace-free words)
Words == {"red", "bicycle"}
\* byte values of a payload of the first part; a zero byte is a byte like any other
Bytes == {0}
\* MIME types a part may declare
MimeTypes == {"image/png", "text/plain"}
\* os.getenv yields None (<<>> here) or a string (<<s>> here)
EnvValues == {<<>>, <<"">>, <<"secret">>}
Commands == {"start", "help", "generate"}

SeqsUpTo(S, n) == UNION {[1..k -> S] : k \in 0..n}

ArgLists == SeqsUpTo(Words, MaxArgs)
Payloads == SeqsUpTo(Bytes, MaxData)

(***************************************************************************)
(* Texts of the program, shortened to their first sentence; the user's     *)
(* first name, which some of them embed, is left out.                      *)
(***************************************************************************)
IMAGE_GEN_MODEL_NAME == "models/gemini-1.5-flash-latest"
PromptPrefix == "Generate an image depicting: "
WelcomeText == "Hi! I can generate images based on your descriptions using Google's AI."
HelpText == "**How to use me:**"
UsageText == "Please provide a description after the /generate command."
ProcessingText == "Generating your image... Please wait."
CouldNotText == "Sorry, I couldn't generate an image for that prompt."
BlockedText == "Sorry, your request was blocked due to safety reasons."
StoppedText == "Sorry, the generation was stopped."
RetryLaterText == "Sorry, an unexpected error occurred. Please try again later."
Caption(p) == "Here's the image for: \"" \o p \o "\"\n\nGenerated by Google AI."

(***************************************************************************)
(* Python helpers.                                                         *)
(***************************************************************************)
\* bool(v) of an os.getenv result: None and "" are falsy
EnvTruthy(v) == v # <<>> /\ v[1] # ""

\* " ".join(reversed(args)): the words in the wrong order
RECURSIVE JoinReversed(_)
JoinReversed(a) ==
  IF Len(a) = 0 THEN ""
  ELSE IF Len(a) = 1 THEN a[1]
  ELSE JoinReversed(Tail(a)) \o " " \o a[1]

\* " ".join(args)
RECURSIVE Join(_)
Join(a) ==
  IF Len(a) = 0 THEN ""
  ELSE IF Len(a) = 1 THEN a[1]
  ELSE a[1] \o " " \o Join(Tail(a))

\* s.startswith(p)
StartsWith(s, p) == Len(s) >= Len(p) /\ SubSeq(s, 1, Len(p)) = p

\* t in s
Contains(s, t) ==
  \E i \in 1..(Len(s) - Len(t) + 1) : SubSeq(s, i, i + Len(t) - 1) = t

(***************************************************************************)
(* Provider responses.  A part either has no blob attribute, a blob that   *)
(* is None (reading its mime_type raises), or a blob with a MIME type and  *)
(* a byte payload.                                                         *)
(***************************************************************************)
NoBlobPart == [kind |-> "no_blob", mime_type |-> "", data |-> <<>>]
NoneBlobPart == [kind |-> "blob_none", mime_type |-> "", data |-> <<>>]
BlobParts == {[kind |-> "blob", mime_type |-> m, data |-> d] : m \in MimeTypes, d \in Payloads}
\* parts that can stand first in a response
FirstParts == {NoBlobPart, NoneBlobPart} \cup BlobParts
\* parts that follow the first one: an image the probe of line 125 never reads
LaterParts == {[kind |-> "blob", mime_type |-> "image/png", data |-> <<255>>]}

NoPartsResponse == [has_parts |-> FALSE, parts |-> <<>>]
Responses ==
  {NoPartsResponse, [has_parts |-> TRUE, parts |-> <<>>]}
  \cup {[has_parts |-> TRUE, parts |-> <<p>> \o t] :
          p \in FirstParts, t \in SeqsUpTo(LaterParts, MaxParts - 1)}

\* image_bytes is None or a bytes object
NoneBytes == [is_none |-> TRUE, data |-> <<>>]
SomeBytes(d) == [is_none |-> FALSE, data |-> d]

\* the condition of line 125, up to the read of blob.mime_type
HasFirstBlob(r) ==
  /\ r.has_parts
  /\ Len(r.parts) > 0
  /\ r.parts[1].kind # "no_blob"

\* line 125 raises AttributeError when the blob has no mime_type
ProbeRaises(r) == HasFirstBlob(r) /\ r.parts[1].kind = "blob_none"

\* lines 125-136: the bytes of the first part when it is an image, else None
extractImage(r) ==
  IF /\ HasFirstBlob(r)
     /\ StartsWith(r.parts[1].mime_type, "image/")
  THEN SomeBytes(r.parts[1].data)
  ELSE NoneBytes

\* line 156: `if image_bytes:`
Truthy(b) == ~b.is_none /\ Len(b.data) > 0

(***************************************************************************)
(* Exceptions of the adapter call and the except clauses of lines 171-179. *)
(***************************************************************************)
ExceptionKinds == {"BlockedPromptException", "StopCandidateException", "Exception"}

\* isinstance(e, cls): both provider signals derive from Exception directly
IsInstance(k, cls) == k = cls \/ cls = "Exception"

ExceptClauses ==
  << [cls |-> "BlockedPromptException", text |-> BlockedText],
     [cls |-> "StopCandidateException", text |-> StoppedText],
     [cls |-> "Exception", text |-> RetryLaterText] >>

\* the catch-all clause placed first: every failure gets the retry-later text
ExceptTextCatchAllFirst(k) == RetryLaterText

\* the text of the first except clause that matches
ExceptText(k) ==
  LET i == CHOOSE j \in 1..Len(ExceptClauses) :
             /\ IsInstance(k, ExceptClauses[j].cls)
             /\ \A h \in 1..(j - 1) : ~IsInstance(k, ExceptClauses[h].cls)
  IN ExceptClauses[i].text

(***************************************************************************)
(* State.                                                                  *)
(***************************************************************************)
Updates == 1..MaxUpdates

VARIABLES
  TELEGRAM_BOT_TOKEN,   \* line 20
  GOOGLE_API_KEY,       \* line 21
  pc_main,              \* position of the process: module level, main(), exited
  exit_status,          \* exit status of the process once pc_main = "exited"
  error_log,            \* messages given to logger.error during start-up
  image_model,          \* the module-level model handle of line 46
  application,          \* the Application of line 190
  handlers,             \* commands registered by lines 193-195
  arrived,              \* number of updates received so far
  update_queue,         \* updates fetched by polling and not yet dispatched
  pc,                   \* position of each update's handler invocation
  command,              \* the command of each update
  args,                 \* context.args
  prompt,               \* line 86
  response,             \* line 108
  adapter,              \* how the generate_content call of the request ended
  image_bytes,          \* lines 126, 136
  exc,                  \* the exception in flight inside the try block
  calls,                \* the calls the invocation has issued, in order
  processing_message,   \* the placeholder message as the chat shows it
  raised                \* the invocation ended with an exception

startup_vars == <<TELEGRAM_BOT_TOKEN, GOOGLE_API_KEY, pc_main, exit_status,
                  error_log, image_model, application, handlers>>
queue_vars == <<arrived, update_queue>>
update_vars == <<command, args>>
frame_vars == <<prompt, response, adapter, image_bytes, exc, calls,
                processing_message, raised>>
vars == <<startup_vars, queue_vars, pc, update_vars, frame_vars>>

NoMessage == [state |-> "none", text |-> ""]
NoCall == [outcome |-> "none", kind |-> ""]

\* one entry of calls
Call(op, text, data, ok) == [op |-> op, text |-> text, data |-> data, ok |-> ok]

\* positions at which a handler invocation is under way
Running == {"dispatched", "acked", "invoked", "interpreted", "photo_sent",
            "except", "resolved"}

Init ==
  /\ TELEGRAM_BOT_TOKEN \in EnvValues
  /\ GOOGLE_API_KEY \in EnvValues
  /\ pc_main = "module"
  /\ exit_status = 0
  /\ error_log = {}
  /\ image_model = ""
  /\ application = "none"
  /\ handlers = {}
  /\ arrived = 0
  /\ update_queue = <<>>
  /\ pc = [u \in Updates |-> "absent"]
  /\ command = [u \in Updates |-> ""]
  /\ args = [u \in Updates |-> <<>>]
  /\ prompt = [u \in Updates |-> ""]
  /\ response = [u \in Updates |-> NoPartsResponse]
  /\ adapter = [u \in Updates |-> NoCall]
  /\ image_bytes = [u \in Updates |-> NoneBytes]
  /\ exc = [u \in Updates |-> ""]
  /\ calls = [u \in Updates |-> <<>>]
  /\ processing_message = [u \in Updates |-> NoMessage]
  /\ raised = [u \in Updates |-> FALSE]

(***************************************************************************)
(* Start-up: module level (lines 38-50) and main() (lines 183-204).        *)
(***************************************************************************)
\* lines 38-40
CheckGoogleKey ==
  /\ pc_main = "module"
  /\ IF ~EnvTruthy(GOOGLE_API_KEY)
     THEN /\ error_log' = error_log \cup {"GOOGLE_API_KEY environment variable not set!"}
          /\ pc_main' = "exited"
          /\ exit_status' = 1
     ELSE /\ pc_main' = "configure"
          /\ UNCHANGED <<error_log, exit_status>>
  /\ UNCHANGED <<TELEGRAM_BOT_TOKEN, GOOGLE_API_KEY, image_model, application, handlers>>
  /\ UNCHANGED <<queue_vars, pc, update_vars, frame_vars>>

\* lines 42-50: genai.configure and GenerativeModel either work or raise
ConfigureGoogleAI ==
  /\ pc_main = "configure"
  /\ \E ok \in BOOLEAN :
       IF ok
       THEN /\ image_model' = IMAGE_GEN_MODEL_NAME
            /\ pc_main' = "main"
            /\ UNCHANGED <<error_log, exit_status>>
       ELSE /\ error_log' = error_log \cup {"Failed to configure Google AI"}
            /\ pc_main' = "exited"
            /\ exit_status' = 1
            /\ UNCHANGED image_model
  /\ UNCHANGED <<TELEGRAM_BOT_TOKEN, GOOGLE_API_KEY, application, handlers>>
  /\ UNCHANGED <<queue_vars, pc, update_vars, frame_vars>>

\* lines 185-187: main() returns, and the script ends with status 0
CheckTelegramToken ==
  /\ pc_main = "main"
  /\ IF ~EnvTruthy(TELEGRAM_BOT_TOKEN)
     THEN /\ error_log' = error_log \cup {"TELEGRAM_BOT_TOKEN environment variable not set!"}
          /\ pc_main' = "exited"
          /\ exit_status' = 0
     ELSE /\ pc_main' = "build"
          /\ UNCHANGED <<error_log, exit_status>>
  /\ UNCHANGED <<TELEGRAM_BOT_TOKEN, GOOGLE_API_KEY, image_model, application, handlers>>
  /\ UNCHANGED <<queue_vars, pc, update_vars, frame_vars>>

\* line 190
BuildApplication ==
  /\ pc_main = "build"
  /\ application' = "built"
  /\ pc_main' = "register"
  /\ UNCHANGED <<TELEGRAM_BOT_TOKEN, GOOGLE_API_KEY, exit_status, error_log,
                 image_model, handlers>>
  /\ UNCHANGED <<queue_vars, pc, update_vars, frame_vars>>

\* lines 193-195
AddHandlers ==
  /\ pc_main = "register"
  /\ handlers' = {"start", "help", "generate"}
  /\ pc_main' = "run"
  /\ UNCHANGED <<TELEGRAM_BOT_TOKEN, GOOGLE_API_KEY, exit_status, error_log,
                 image_model, application>>
  /\ UNCHANGED <<queue_vars, pc, update_vars, frame_vars>>

\* line 204
RunPolling ==
  /\ pc_main = "run"
  /\ pc_main' = "polling"
  /\ UNCHANGED <<TELEGRAM_BOT_TOKEN, GOOGLE_API_KEY, exit_status, error_log,
                 image_model, application, handlers>>
  /\ UNCHANGED <<queue_vars, pc, update_vars, frame_vars>>

(***************************************************************************)
(* Update dispatch of the Application (lines 190, 204).                    *)
(***************************************************************************)
\* line 190 builds the Application without concurrent_updates: the
\* Application then processes updates one by one
concurrent_updates == FALSE

\* polling fetches the next update of the chat
ReceiveUpdate(c, a) ==
  /\ pc_main = "polling"
  /\ arrived < MaxUpdates
  /\ c \in handlers
  /\ c # "generate" => a = <<>>
  /\ arrived' = arrived + 1
  /\ update_queue' = Append(update_queue, arrived + 1)
  /\ pc' = [pc EXCEPT ![arrived + 1] = "queued"]
  /\ command' = [command EXCEPT ![arrived + 1] = c]
  /\ args' = [args EXCEPT ![arrived + 1] = a]
  /\ UNCHANGED <<startup_vars, frame_vars>>

\* the Application can hand update u to its handler
CanDispatch(u) ==
  /\ pc_main = "polling"
  /\ update_queue # <<>>
  /\ u = Head(update_queue)
  /\ concurrent_updates \/ \A v \in Updates : pc[v] \notin Running

Dispatch(u) ==
  /\ CanDispatch(u)
  /\ update_queue' = Tail(update_queue)
  /\ pc' = [pc EXCEPT ![u] = "dispatched"]
  /\ UNCHANGED <<startup_vars, arrived, update_vars, frame_vars>>

\* the handler coroutine ends (by return or by exception) and its frame goes
HandlerReturn(u) ==
  /\ pc[u] = "resolved"
  /\ pc' = [pc EXCEPT ![u] = "returned"]
  /\ command' = [command EXCEPT ![u] = ""]
  /\ args' = [args EXCEPT ![u] = <<>>]
  /\ prompt' = [prompt EXCEPT ![u] = ""]
  /\ response' = [response EXCEPT ![u] = NoPartsResponse]
  /\ adapter' = [adapter EXCEPT ![u] = NoCall]
  /\ image_bytes' = [image_bytes EXCEPT ![u] = NoneBytes]
  /\ exc' = [exc EXCEPT ![u] = ""]
  /\ calls' = [calls EXCEPT ![u] = <<>>]
  /\ processing_message' = [processing_message EXCEPT ![u] = NoMessage]
  /\ raised' = [raised EXCEPT ![u] = FALSE]
  /\ UNCHANGED <<startup_vars, queue_vars>>

(***************************************************************************)
(* Handlers (lines 54-179).  A chat-platform call either takes effect and  *)
(* returns (ok) or raises without effect.                                  *)
(***************************************************************************)
Issue(u, c) == calls' = [calls EXCEPT ![u] = Append(@, c)]

\* lines 54-63
start(u) ==
  /\ pc[u] = "dispatched"
  /\ command[u] = "start"
  /\ \E ok \in BOOLEAN :
       /\ Issue(u, Call("reply_text", WelcomeText, <<>>, ok))
       /\ raised' = [raised EXCEPT ![u] = ~ok]
  /\ pc' = [pc EXCEPT ![u] = "resolved"]
  /\ UNCHANGED <<startup_vars, queue_vars, update_vars>>
  /\ UNCHANGED <<prompt, response, adapter, image_bytes, exc, processing_message>>

\* lines 65-74
help_command(u) ==
  /\ pc[u] = "dispatched"
  /\ command[u] = "help"
  /\ \E ok \in BOOLEAN :
       /\ Issue(u, Call("reply_text", HelpText, <<>>, ok))
       /\ raised' = [raised EXCEPT ![u] = ~ok]
  /\ pc' = [pc EXCEPT ![u] = "resolved"]
  /\ UNCHANGED <<startup_vars, queue_vars, update_vars>>
  /\ UNCHANGED <<prompt, response, adapter, image_bytes, exc, processing_message>>

\* lines 79-84 without the return: the handler goes on after the usage hint
GenerateUsageNoReturn(u) ==
  /\ pc[u] = "dispatched"
  /\ command[u] = "generate"
  /\ Len(args[u]) = 0
  /\ \E ok \in BOOLEAN :
       /\ calls' = [calls EXCEPT ![u] = Append(@, Call("reply_text", UsageText, <<>>, ok))]
       /\ IF ok
          THEN pc' = [pc EXCEPT ![u] = "acked"] /\ UNCHANGED raised
          ELSE pc' = [pc EXCEPT ![u] = "resolved"] /\ raised' = [raised EXCEPT ![u] = TRUE]
  /\ UNCHANGED <<startup_vars, queue_vars, update_vars>>
  /\ UNCHANGED <<prompt, response, adapter, image_bytes, exc, processing_message>>

\* lines 79-84: no arguments, reply with the usage hint and return
GenerateUsage(u) ==
  /\ pc[u] = "dispatched"
  /\ command[u] = "generate"
  /\ Len(args[u]) = 0
  /\ \E ok \in BOOLEAN :
       /\ Issue(u, Call("reply_text", UsageText, <<>>, ok))
       /\ raised' = [raised EXCEPT ![u] = ~ok]
  /\ pc' = [pc EXCEPT ![u] = "resolved"]
  /\ UNCHANGED <<startup_vars, queue_vars, update_vars>>
  /\ UNCHANGED <<prompt, response, adapter, image_bytes, exc, processing_message>>

\* lines 86-93: build the prompt and send the placeholder; the reply is
\* outside the try block, so its exception ends the handler
GenerateAcknowledge(u) ==
  /\ pc[u] = "dispatched"
  /\ command[u] = "generate"
  /\ Len(args[u]) # 0
  /\ prompt' = [prompt EXCEPT ![u] = Join(args[u])]
  /\ \E ok \in BOOLEAN :
       /\ Issue(u, Call("reply_text", ProcessingText, <<>>, ok))
       /\ IF ok
          THEN /\ processing_message' = [processing_message EXCEPT ![u] =
                                           [state |-> "shown", text |-> ProcessingText]]
               /\ pc' = [pc EXCEPT ![u] = "acked"]
               /\ UNCHANGED raised
          ELSE /\ raised' = [raised EXCEPT ![u] = TRUE]
               /\ pc' = [pc EXCEPT ![u] = "resolved"]
               /\ UNCHANGED processing_message
  /\ UNCHANGED <<startup_vars, queue_vars, update_vars>>
  /\ UNCHANGED <<response, adapter, image_bytes, exc>>

\* lines 108-113: the call is handed to a worker thread and awaited
GenerateInvoke(u) ==
  /\ pc[u] = "acked"
  /\ Issue(u, Call("generate_content", PromptPrefix \o prompt[u], <<>>, TRUE))
  /\ adapter' = [adapter EXCEPT ![u] = [outcome |-> "pending", kind |-> ""]]
  /\ pc' = [pc EXCEPT ![u] = "invoked"]
  /\ UNCHANGED <<startup_vars, queue_vars, update_vars>>
  /\ UNCHANGED <<prompt, response, image_bytes, exc, processing_message, raised>>

\* the provider never answers: there is no timeout on the await of line 108
AdapterHangs(u) ==
  /\ pc[u] = "invoked"
  /\ adapter[u].outcome = "pending"
  /\ adapter' = [adapter EXCEPT ![u] = [outcome |-> "hung", kind |-> ""]]
  /\ UNCHANGED <<startup_vars, queue_vars, pc, update_vars>>
  /\ UNCHANGED <<prompt, response, image_bytes, exc, calls, processing_message, raised>>

\* the adapter call raises inside the try block
AdapterRaises(u, k) ==
  /\ pc[u] = "invoked"
  /\ adapter[u].outcome = "pending"
  /\ adapter' = [adapter EXCEPT ![u] = [outcome |-> "raised", kind |-> k]]
  /\ exc' = [exc EXCEPT ![u] = k]
  /\ pc' = [pc EXCEPT ![u] = "except"]
  /\ UNCHANGED <<startup_vars, queue_vars, update_vars>>
  /\ UNCHANGED <<prompt, response, image_bytes, calls, processing_message, raised>>

\* lines 108, 125-136: the adapter call returns r and the response is probed
AdapterReturns(u, r) ==
  /\ pc[u] = "invoked"
  /\ adapter[u].outcome = "pending"
  /\ adapter' = [adapter EXCEPT ![u] = [outcome |-> "returned", kind |-> ""]]
  /\ response' = [response EXCEPT ![u] = r]
  /\ IF ProbeRaises(r)
     THEN /\ exc' = [exc EXCEPT ![u] = "Exception"]
          /\ pc' = [pc EXCEPT ![u] = "except"]
          /\ UNCHANGED image_bytes
     ELSE /\ image_bytes' = [image_bytes EXCEPT ![u] = extractImage(r)]
          /\ pc' = [pc EXCEPT ![u] = "interpreted"]
          /\ UNCHANGED exc
  /\ UNCHANGED <<startup_vars, queue_vars, update_vars>>
  /\ UNCHANGED <<prompt, calls, processing_message, raised>>

\* lines 156-162 with a failure of send_photo swallowed: the delete follows
SendPhotoSwallowFailure(u) ==
  /\ pc[u] = "interpreted"
  /\ Truthy(image_bytes[u])
  /\ \E ok \in BOOLEAN :
       calls' = [calls EXCEPT ![u] =
                   Append(@, Call("send_photo", Caption(prompt[u]), image_bytes[u].data, ok))]
  /\ pc' = [pc EXCEPT ![u] = "photo_sent"]
  /\ UNCHANGED <<startup_vars, queue_vars, update_vars>>
  /\ UNCHANGED <<prompt, response, adapter, image_bytes, exc, processing_message, raised>>

\* lines 156-162
SendPhoto(u) ==
  /\ pc[u] = "interpreted"
  /\ Truthy(image_bytes[u])
  /\ \E ok \in BOOLEAN :
       /\ Issue(u, Call("send_photo", Caption(prompt[u]), image_bytes[u].data, ok))
       /\ IF ok
          THEN /\ pc' = [pc EXCEPT ![u] = "photo_sent"]
               /\ UNCHANGED exc
          ELSE /\ exc' = [exc EXCEPT ![u] = "Exception"]
               /\ pc' = [pc EXCEPT ![u] = "except"]
  /\ UNCHANGED <<startup_vars, queue_vars, update_vars>>
  /\ UNCHANGED <<prompt, response, adapter, image_bytes, processing_message, raised>>

\* line 164, still inside the try block
DeleteProcessingMessage(u) ==
  /\ pc[u] = "photo_sent"
  /\ \E ok \in BOOLEAN :
       /\ Issue(u, Call("delete_message", "", <<>>, ok))
       /\ IF ok
          THEN /\ processing_message' = [processing_message EXCEPT ![u] =
                                           [state |-> "deleted", text |-> ""]]
               /\ pc' = [pc EXCEPT ![u] = "resolved"]
               /\ UNCHANGED exc
          ELSE /\ exc' = [exc EXCEPT ![u] = "Exception"]
               /\ pc' = [pc EXCEPT ![u] = "except"]
               /\ UNCHANGED processing_message
  /\ UNCHANGED <<startup_vars, queue_vars, update_vars>>
  /\ UNCHANGED <<prompt, response, adapter, image_bytes, raised>>

\* lines 165-169, still inside the try block
EditCouldNot(u) ==
  /\ pc[u] = "interpreted"
  /\ ~Truthy(image_bytes[u])
  /\ \E ok \in BOOLEAN :
       /\ Issue(u, Call("edit_text", CouldNotText, <<>>, ok))
       /\ IF ok
          THEN /\ processing_message' = [processing_message EXCEPT ![u] =
                                           [state |-> "edited", text |-> CouldNotText]]
               /\ pc' = [pc EXCEPT ![u] = "resolved"]
               /\ UNCHANGED exc
          ELSE /\ exc' = [exc EXCEPT ![u] = "Exception"]
               /\ pc' = [pc EXCEPT ![u] = "except"]
               /\ UNCHANGED processing_message
  /\ UNCHANGED <<startup_vars, queue_vars, update_vars>>
  /\ UNCHANGED <<prompt, response, adapter, image_bytes, raised>>

\* lines 171-179: the first matching except clause edits the placeholder;
\* an exception of that edit leaves the handler
HandleException(u) ==
  /\ pc[u] = "except"
  /\ \E ok \in BOOLEAN :
       /\ Issue(u, Call("edit_text", ExceptText(exc[u]), <<>>, ok))
       /\ IF ok
          THEN /\ processing_message' = [processing_message EXCEPT ![u] =
                                           [state |-> "edited", text |-> ExceptText(exc[u])]]
               /\ UNCHANGED raised
          ELSE /\ raised' = [raised EXCEPT ![u] = TRUE]
               /\ UNCHANGED processing_message
  /\ exc' = [exc EXCEPT ![u] = ""]
  /\ pc' = [pc EXCEPT ![u] = "resolved"]
  /\ UNCHANGED <<startup_vars, queue_vars, update_vars>>
  /\ UNCHANGED <<prompt, response, adapter, image_bytes>>

(***************************************************************************)
(* Specification.                                                          *)
(***************************************************************************)
Next ==
  \/ CheckGoogleKey
  \/ ConfigureGoogleAI
  \/ CheckTelegramToken
  \/ BuildApplication
  \/ AddHandlers
  \/ RunPolling
  \/ \E c \in Commands, a \in ArgLists : ReceiveUpdate(c, a)
  \/ \E u \in Updates : Dispatch(u)
  \/ \E u \in Updates : start(u)
  \/ \E u \in Updates : help_command(u)
  \/ \E u \in Updates : GenerateUsage(u)
  \/ \E u \in Updates : GenerateAcknowledge(u)
  \/ \E u \in Updates : GenerateInvoke(u)
  \/ \E u \in Updates : AdapterHangs(u)
  \/ \E u \in Updates, k \in ExceptionKinds : AdapterRaises(u, k)
  \/ \E u \in Updates, r \in Responses : AdapterReturns(u, r)
  \/ \E u \in Updates : SendPhoto(u)
  \/ \E u \in Updates : DeleteProcessingMessage(u)
  \/ \E u \in Updates : EditCouldNot(u)
  \/ \E u \in Updates : HandleException(u)
  \/ \E u \in Updates : HandlerReturn(u)

Spec == Init /\ [][Next]_vars

(***************************************************************************)
(* Observations on the calls of one handler invocation.                    *)
(***************************************************************************)
Generates == {u \in Updates : command[u] = "generate"}

\* the calls of kind op that u has issued, and those that took effect
Issued(u, op) == SelectSeq(calls[u], LAMBDA c : c.op = op)
Delivered(u, op) == SelectSeq(calls[u], LAMBDA c : c.op = op /\ c.ok)

\* the replies of u that carry text t
Replies(u, t) == SelectSeq(calls[u], LAMBDA c : c.op = "reply_text" /\ c.text = t)

\* the handler of u has run its last statement
Finished(u) == pc[u] = "resolved"

\* the last call u issued took effect
LastCallOk(u) == calls[u] # <<>> /\ calls[u][Len(calls[u])].ok

\* position of the first call of kind op in the calls of u, 0 when there is none
FirstIndex(u, op) ==
  IF \E i \in 1..Len(calls[u]) : calls[u][i].op = op
  THEN CHOOSE i \in 1..Len(calls[u]) :
         /\ calls[u][i].op = op
         /\ \A j \in 1..(i - 1) : calls[u][j].op # op
  ELSE 0

\* what the user sees as the result of a request: photos and explanatory texts
PhotosSeen(u) == Len(Delivered(u, "send_photo"))
TextsSeen(u) ==
  Len(Delivered(u, "edit_text"))
  + Len(SelectSeq(Replies(u, UsageText), LAMBDA c : c.ok))

\* offset of word i of a in the space-joined string
RECURSIVE Offset(_, _)
Offset(a, i) == IF i = 1 THEN 0 ELSE Offset(a, i - 1) + Len(a[i - 1]) + 1

\* p is the words of a, in order, with exactly one space between neighbours
IsSpaceJoined(p, a) ==
  /\ Len(a) > 0
  /\ Len(p) = Offset(a, Len(a)) + Len(a[Len(a)])
  /\ \A i \in 1..Len(a) :
       SubSeq(p, Offset(a, i) + 1, Offset(a, i) + Len(a[i])) = a[i]
  /\ \A i \in 1..(Len(a) - 1) :
       SubSeq(p, Offset(a, i) + Len(a[i]) + 1, Offset(a, i) + Len(a[i]) + 1) = " "

\* t is the prompt the adapter gets for the argument list a
IsAdapterPrompt(t, a) ==
  /\ StartsWith(t, PromptPrefix)
  /\ IsSpaceJoined(SubSeq(t, Len(PromptPrefix) + 1, Len(t)), a)

\* the first part of the response of u is a blob declared as an image
FirstPartIsImage(u) ==
  /\ adapter[u].outcome = "returned"
  /\ response[u].has_parts
  /\ Len(response[u].parts) > 0
  /\ response[u].parts[1].kind = "blob"
  /\ StartsWith(response[u].parts[1].mime_type, "image/")

\* the response of u has one of the four shapes without an image up front
NoImageShape(u) ==
  /\ adapter[u].outcome = "returned"
  /\ \/ ~response[u].has_parts
     \/ Len(response[u].parts) = 0
     \/ response[u].parts[1].kind = "no_blob"
     \/ /\ response[u].parts[1].kind = "blob"
        /\ ~StartsWith(response[u].parts[1].mime_type, "image/")

(***************************************************************************)
(* C1.  Every /generate request ends with exactly one user-visible         *)
(* outcome, whatever the adapter and the chat-platform calls do: never a   *)
(* delivered photo together with an error text, never two edits of the     *)
(* placeholder, and, when the last call of the handler went through, not   *)
(* zero outcomes.                                                          *)
(***************************************************************************)
C1_ExactlyOneOutcome ==
  \A u \in Generates :
    Finished(u) =>
      /\ ~(PhotosSeen(u) > 0 /\ TextsSeen(u) > 0)
      /\ Len(Delivered(u, "edit_text")) <= 1
      /\ LastCallOk(u) => PhotosSeen(u) + TextsSeen(u) = 1

(***************************************************************************)
(* C2.  The placeholder is created before the adapter is called and gets   *)
(* its terminal state once: deleted exactly when a photo was delivered,    *)
(* edited exactly when the request failed, never edited after a photo was  *)
(* delivered and never edited twice.                                       *)
(***************************************************************************)
C2_PlaceholderLifecycle ==
  \A u \in Generates :
    /\ FirstIndex(u, "generate_content") > 0 =>
         /\ processing_message[u].state # "none"
         /\ \E i \in 1..(FirstIndex(u, "generate_content") - 1) :
              calls[u][i] = Call("reply_text", ProcessingText, <<>>, TRUE)
    /\ \A op \in {"send_photo", "edit_text", "delete_message"} :
         FirstIndex(u, op) > 0 =>
           /\ FirstIndex(u, "generate_content") > 0
           /\ FirstIndex(u, "generate_content") < FirstIndex(u, op)
    /\ Len(Delivered(u, "edit_text")) + Len(Delivered(u, "delete_message")) <= 1
    /\ processing_message[u].state = "deleted" => PhotosSeen(u) = 1
    /\ processing_message[u].state = "edited" => PhotosSeen(u) = 0
    /\ (Finished(u) /\ LastCallOk(u) /\ processing_message[u].state # "none") =>
         processing_message[u].state = (IF PhotosSeen(u) = 1 THEN "deleted" ELSE "edited")

(***************************************************************************)
(* C3.  When TELEGRAM_BOT_TOKEN or GOOGLE_API_KEY is missing, the process  *)
(* logs an error and exits with a nonzero status before anything is set    *)
(* up: no AI client, no chat client, no handler, no polling.               *)
(***************************************************************************)
C3_MissingSecretAborts ==
  (~EnvTruthy(TELEGRAM_BOT_TOKEN) \/ ~EnvTruthy(GOOGLE_API_KEY)) =>
    /\ pc_main # "polling"
    /\ pc_main = "exited" =>
         /\ error_log # {}
         /\ exit_status # 0
         /\ image_model = ""
         /\ application = "none"
         /\ handlers = {}

Acknowledged(u) == Call("reply_text", ProcessingText, <<>>, TRUE) \in
                     {calls[u][i] : i \in 1..Len(calls[u])}

C5_EmptyArgsUsageOnly ==
  \A u \in Generates :
    (Len(args[u]) = 0 /\ pc[u] \in Running) =>
      /\ adapter[u] = NoCall
      /\ processing_message[u] = NoMessage
      /\ Issued(u, "generate_content") = <<>>
      /\ Issued(u, "send_photo") = <<>>
      /\ Replies(u, ProcessingText) = <<>>
      /\ pc[u] \in {"dispatched", "resolved"}
      /\ pc[u] = "dispatched" => calls[u] = <<>>
      /\ Finished(u) =>
           /\ Len(calls[u]) = 1
           /\ calls[u][1].op = "reply_text"
           /\ calls[u][1].text = UsageText

\* a finished request without arguments whose usage hint was delivered
C5_Witness ==
  \E u \in Generates :
    /\ Finished(u)
    /\ Len(args[u]) = 0
    /\ calls[u] = <<Call("reply_text", UsageText, <<>>, TRUE)>>

(***************************************************************************)
(* C6.  When the first part of the response carries a payload B of any     *)
(* length with a MIME type starting with "image/", the interpreter yields  *)
(* exactly B, the handler sends one photo carrying B with a caption that   *)
(* contains the prompt, and the placeholder is deleted.                    *)
(***************************************************************************)
C6_ImagePayloadDelivered ==
  \A u \in Generates :
    (Finished(u) /\ FirstPartIsImage(u)) =>
      /\ image_bytes[u] = SomeBytes(response[u].parts[1].data)
      /\ Len(Issued(u, "send_photo")) = 1
      /\ Issued(u, "send_photo")[1].data = response[u].parts[1].data
      /\ Contains(Issued(u, "send_photo")[1].text, Join(args[u]))
      /\ Issued(u, "send_photo")[1].ok => Len(Issued(u, "delete_message")) = 1
      /\ Len(Delivered(u, "delete_message")) = 1 => processing_message[u].state = "deleted"

(***************************************************************************)
(* C7.  When the adapter returns a response with no parts attribute, with  *)
(* an empty parts list, with a first part that has no payload or with a    *)
(* first part that is not an image, the interpreter yields None, no photo  *)
(* is sent, the placeholder is not deleted, and the placeholder is edited  *)
(* to the "couldn't generate" text and to no other text.  An image in a    *)
(* later part is not extracted.                                            *)
(***************************************************************************)
C7_NoImageGenericFailure ==
  \A u \in Generates :
    NoImageShape(u) =>
      /\ image_bytes[u] = NoneBytes
      /\ Issued(u, "send_photo") = <<>>
      /\ Issued(u, "delete_message") = <<>>
      /\ processing_message[u].state # "deleted"
      /\ \A i \in 1..Len(Issued(u, "edit_text")) :
           Issued(u, "edit_text")[i].text = CouldNotText
      /\ Finished(u) => Len(Issued(u, "edit_text")) = 1

\* the text the claim gives for each kind of failure of the adapter call
FailureText(k) ==
  CASE k = "BlockedPromptException" -> BlockedText
    [] k = "StopCandidateException" -> StoppedText
    [] OTHER -> RetryLaterText

(***************************************************************************)
(* C8.  When the adapter call raises, no photo is sent, the placeholder is *)
(* never deleted, and the handler issues exactly one edit of the           *)
(* placeholder whose text is fixed by the kind of failure: safety-block    *)
(* text for a blocked prompt, content-policy text for a stopped            *)
(* generation, retry-later text for anything else; the placeholder shows   *)
(* that text when the edit went through.                                   *)
(***************************************************************************)
C8_ExceptionToMessage ==
  /\ Cardinality({BlockedText, StoppedText, RetryLaterText}) = 3
  /\ \A u \in Generates :
       adapter[u].outcome = "raised" =>
         /\ Issued(u, "send_photo") = <<>>
         /\ Issued(u, "delete_message") = <<>>
         /\ processing_message[u].state # "deleted"
         /\ pc[u] = "except" => Issued(u, "edit_text") = <<>>
         /\ Finished(u) =>
              /\ Len(Issued(u, "edit_text")) = 1
              /\ Issued(u, "edit_text")[1].text = FailureText(adapter[u].kind)
              /\ processing_message[u] =
                   IF Issued(u, "edit_text")[1].ok
                   THEN [state |-> "edited", text |-> FailureText(adapter[u].kind)]
                   ELSE [state |-> "shown", text |-> ProcessingText]

\* a finished request whose generation was stopped and whose edit went through
C8_Witness ==
  \E u \in Generates :
    /\ Finished(u)
    /\ adapter[u] = [outcome |-> "raised", kind |-> "StopCandidateException"]
    /\ processing_message[u] = [state |-> "edited", text |-> StoppedText]

(***************************************************************************)
(* C9.  A provider call that never returns blocks only the handler of its  *)
(* own request: while the only handlers under way are stuck in such a      *)
(* call, the next pending update can still be dispatched.                  *)
(***************************************************************************)
C9_HungCallBlocksOnlyItsRequest ==
  ( /\ update_queue # <<>>
    /\ \E u \in Updates : adapter[u].outcome = "hung"
    /\ \A u \in Updates : pc[u] \in Running => adapter[u].outcome = "hung" )
  => CanDispatch(Head(update_queue))

(***************************************************************************)
(* C10.  The placeholder is deleted only after the photo was delivered: a  *)
(* delete is issued only after a send_photo that went through, so a        *)
(* deleted placeholder implies a delivered photo.  When send_photo raises, *)
(* no delete is issued and the handler issues one edit of the placeholder  *)
(* with the retry-later text.                                              *)
(***************************************************************************)
C10_PhotoBeforeDelete ==
  \A u \in Generates :
    /\ processing_message[u].state = "deleted" => PhotosSeen(u) = 1
    /\ \A j \in 1..Len(calls[u]) :
         calls[u][j].op = "delete_message" =>
           \E i \in 1..(j - 1) : calls[u][i].op = "send_photo" /\ calls[u][i].ok
    /\ (\E i \in 1..Len(calls[u]) : calls[u][i].op = "send_photo" /\ ~calls[u][i].ok) =>
         /\ Issued(u, "delete_message") = <<>>
         /\ processing_message[u].state # "deleted"
         /\ Finished(u) =>
              /\ Len(Issued(u, "edit_text")) = 1
              /\ Issued(u, "edit_text")[1].text = RetryLaterText
              /\ Issued(u, "edit_text")[1].ok =>
                   processing_message[u] = [state |-> "edited", text |-> RetryLaterText]

\* a finished request whose send_photo raised and whose placeholder was edited
C10_Witness ==
  \E u \in Generates :
    /\ Finished(u)
    /\ \E i \in 1..Len(calls[u]) : calls[u][i].op = "send_photo" /\ ~calls[u][i].ok
    /\ processing_message[u] = [state |-> "edited", text |-> RetryLaterText]

====
